---------------------------- MODULE Spec2Model ----------------------------
(***************************************************************************)
(* Scan engine of storage-manager (backend/app.py, backend/scanner.py).    *)
(*                                                                         *)
(* Spec      the scan lifecycle: the /api/scan/start, /api/scan/stop and   *)
(*           /api/scan/status handlers of app.py, the scheduler thread,    *)
(*           FileScanner.start_scan and the walker thread of every         *)
(*           FileScanner instance, the scans table, process restarts.      *)
(* SpecWalk  one traversal of a directory tree by                          *)
(*           FileScanner._scan_filesystem_with_context: exclusion of       *)
(*           shares and of sub-directories, the records handed to the      *)
(*           database session.                                             *)
(* SpecPost  the post passes on the tables of completed scans:             *)
(*           calculate_folder_totals_during_scan and detect_duplicates.    *)
(* SpecList  the listing of a directory's children on those tables.        *)
(* SpecBudget the overall time budget of a scan.                           *)
(* SpecRetry the decorator retry_on_db_lock around a database operation.   *)
(***************************************************************************)
EXTENDS Naturals, Integers, Sequences, FiniteSets, TLC

VARIABLES
    scans,                    \* the scans table: row id = index (ScanRecord)
    scanner_state,            \* app.py global dict scanner_state
    current_scanner_instance, \* app.py global: index into scanners, 0 = None
    scanners,                 \* the FileScanner objects built so far
    req,                      \* the threads that call start_scan / run_scheduled_scan
    lifetime,                 \* number of process restarts so far
    dbFaultsLeft,             \* database operations that may still raise
    lastStatus,               \* the last reply of GET /api/scan/status
    walk                      \* one tree traversal (SpecWalk), the post passes (SpecPost)

vars == <<scans, scanner_state, current_scanner_instance, scanners, req,
          lifetime, dbFaultsLeft, lastStatus, walk>>

lifecycleVars == <<scans, scanner_state, current_scanner_instance, scanners,
                   req, lifetime, dbFaultsLeft, lastStatus>>

---------------------------------------------------------------------------
(* Bounds *)

MaxScanners == 2     \* FileScanner objects (accepted start requests) per behaviour
MaxRestarts == 1     \* process restarts per behaviour
MaxDbFaults == 2     \* database operations that raise per behaviour
NumShares == 1       \* top-level items the lifecycle walker iterates over

Threads == {"http", "sched"}   \* a request thread and the scheduler thread

---------------------------------------------------------------------------
(* The scans table *)

Terminal == {"completed", "failed", "stopped"}

NewScanRecord ==
    [status |-> "running", error_message |-> "none", end_time |-> FALSE,
     lifetime |-> lifetime]

\* for scan in <rows with status='running'>: scan.status = st; scan.error_message
\* = msg; scan.end_time = now
MarkRunning(tbl, st, msg) ==
    [r \in DOMAIN tbl |->
        IF tbl[r].status = "running"
        THEN [tbl[r] EXCEPT !.status = st, !.error_message = msg, !.end_time = TRUE]
        ELSE tbl[r]]

RunningRows == {r \in DOMAIN scans : scans[r].status = "running"}

\* a database operation inside a try block either succeeds or raises
\* (sqlite "database is locked"); dbFaultsLeft bounds the number of raises
DbOutcomes == IF dbFaultsLeft > 0 THEN {TRUE, FALSE} ELSE {TRUE}

Fault(ok) == IF ok THEN dbFaultsLeft ELSE dbFaultsLeft - 1

---------------------------------------------------------------------------
(* FileScanner objects and their walker threads *)

NewScanner ==
    [scanning |-> FALSE, stop_scan |-> FALSE, current_scan |-> FALSE,
     current_scan_id |-> 0, thread |-> "none", sharesLeft |-> 0,
     saw_stop |-> FALSE]

LiveThread == {"started", "walking", "finalize", "post", "except", "cleanup"}

WalkerLive(i) == scanners[i].thread \in LiveThread

AnyWalkerLive == \E i \in DOMAIN scanners : WalkerLive(i)

InitScannerState == [scanning |-> FALSE, error |-> "none"]

IdleReq == [pc |-> "idle", inst |-> 0]

InitLifecycle(faults) ==
    /\ scans = << >>
    /\ scanner_state = InitScannerState
    /\ current_scanner_instance = 0
    /\ scanners = << >>
    /\ req = [t \in Threads |-> IdleReq]
    /\ lifetime = 0
    /\ dbFaultsLeft = faults
    /\ lastStatus = "none"

---------------------------------------------------------------------------
(* POST /api/scan/start and run_scheduled_scan *)

\* app.py start_scan: the check of scanner_state['scanning'] (400 'Scan already
\* in progress' leaves the thread where it is), the construction of the
\* FileScanner and the assignment of current_scanner_instance
start_scan_check(t) ==
    /\ req[t].pc = "idle"
    /\ IF scanner_state.scanning
       THEN UNCHANGED <<req, scanners, current_scanner_instance>>
       ELSE /\ Len(scanners) < MaxScanners
            /\ scanners' = Append(scanners, NewScanner)
            /\ current_scanner_instance' = Len(scanners) + 1
            /\ req' = [req EXCEPT ![t] = [pc |-> "cleanup",
                                          inst |-> Len(scanners) + 1]]
    /\ UNCHANGED <<scans, scanner_state, lifetime, dbFaultsLeft, lastStatus, walk>>

\* FileScanner.start_scan, first part: the guard on self.scanning and the
\* marking of the rows still running as failed; an exception is logged only
FileScanner_start_scan_cleanup(t) ==
    /\ req[t].pc = "cleanup"
    /\ LET i == req[t].inst IN
       IF scanners[i].scanning
       THEN /\ req' = [req EXCEPT ![t] = IdleReq]
            /\ UNCHANGED <<scans, dbFaultsLeft>>
       ELSE \E ok \in DbOutcomes :
            /\ scans' = IF ok THEN MarkRunning(scans, "failed", "superseded")
                        ELSE scans
            /\ dbFaultsLeft' = Fault(ok)
            /\ req' = [req EXCEPT ![t].pc = "create"]
    /\ UNCHANGED <<scanner_state, current_scanner_instance, scanners, lifetime,
                   lastStatus, walk>>

\* FileScanner.start_scan, second part: reset of the object, scanning = True,
\* the new ScanRecord row, the start of the walker thread
FileScanner_start_scan_create(t) ==
    /\ req[t].pc = "create"
    /\ LET i == req[t].inst IN
       \E ok \in DbOutcomes :
       /\ dbFaultsLeft' = Fault(ok)
       /\ IF ok
          THEN /\ scans' = Append(scans, NewScanRecord)
               /\ scanners' = [scanners EXCEPT ![i] =
                      [scanning |-> TRUE, stop_scan |-> FALSE,
                       current_scan |-> TRUE, current_scan_id |-> Len(scans) + 1,
                       thread |-> "started", sharesLeft |-> NumShares,
                       saw_stop |-> FALSE]]
               /\ req' = [req EXCEPT ![t].pc = "setstate"]
          ELSE /\ scans' = scans
               /\ scanners' = [scanners EXCEPT ![i].scanning = TRUE,
                                               ![i].stop_scan = FALSE,
                                               ![i].current_scan = FALSE,
                                               ![i].current_scan_id = 0]
               /\ req' = [req EXCEPT ![t] = IdleReq]
    /\ UNCHANGED <<scanner_state, current_scanner_instance, lifetime, lastStatus,
                   walk>>

\* app.py start_scan, after scanner.start_scan() returned the id
start_scan_set_state(t) ==
    /\ req[t].pc = "setstate"
    /\ LET i == req[t].inst IN
       /\ scanners[i].current_scan_id # 0
       /\ scanner_state' = [scanner_state EXCEPT !.scanning = TRUE]
       /\ req' = [req EXCEPT ![t] = IdleReq]
    /\ UNCHANGED <<scans, current_scanner_instance, scanners, lifetime, dbFaultsLeft,
                   lastStatus, walk>>

---------------------------------------------------------------------------
(* POST /api/scan/stop *)

\* FileScanner.stop_current_scan on the object current_scanner_instance names
stop_current_scan(scs, i) ==
    IF i = 0 THEN scs ELSE [scs EXCEPT ![i].stop_scan = TRUE]

stop_scan ==
    /\ scanner_state.scanning
    /\ scanners' = stop_current_scan(scanners, current_scanner_instance)
    /\ scanner_state' = [scanner_state EXCEPT !.scanning = FALSE,
                                              !.error = "stopped_by_user"]
    /\ \E ok \in DbOutcomes :
       /\ scans' = IF ok THEN MarkRunning(scans, "stopped", "stopped_by_user")
                   ELSE scans
       /\ dbFaultsLeft' = Fault(ok)
    /\ UNCHANGED <<current_scanner_instance, req, lifetime, lastStatus, walk>>

---------------------------------------------------------------------------
(* GET /api/scan/status *)

ScannerIsRunning ==
    /\ current_scanner_instance # 0
    /\ scanners[current_scanner_instance].scanning

\* the three corrections of scanner_state['scanning'], in the order of the code
StatusScanning ==
    LET s1 == (RunningRows # {}) \/ scanner_state.scanning
        s2 == ScannerIsRunning \/ s1
    IN  IF s2 /\ RunningRows = {} /\ ~ScannerIsRunning THEN FALSE ELSE s2

\* the 'status' field of the reply
StatusReply == IF StatusScanning THEN "scanning" ELSE "idle"

get_scan_status ==
    /\ scanner_state' = [scanner_state EXCEPT !.scanning = StatusScanning]
    /\ lastStatus' = StatusReply
    /\ UNCHANGED <<scans, current_scanner_instance, scanners, req, lifetime,
                   dbFaultsLeft, walk>>

---------------------------------------------------------------------------
(* The walker thread: FileScanner._scan_filesystem_with_context *)

\* start of the thread: the excluded-root check and os.listdir(data_path) may
\* raise, which leads to the outer except block
scan_filesystem_setup(i) ==
    /\ i \in DOMAIN scanners
    /\ scanners[i].thread = "started"
    /\ \E raises \in BOOLEAN :
       scanners' = [scanners EXCEPT ![i].thread =
                        IF raises THEN "except" ELSE "walking"]
    /\ UNCHANGED <<scans, scanner_state, current_scanner_instance, req, lifetime,
                   dbFaultsLeft, lastStatus, walk>>

\* one iteration of "for share_name in top_level_items": the stop flag is
\* polled first ("Scan stopped by user request", break: saw_stop); errors
\* inside a share are caught and the loop continues; the loop ends when no
\* item is left
scan_filesystem_share(i) ==
    /\ i \in DOMAIN scanners
    /\ scanners[i].thread = "walking"
    /\ scanners' = [scanners EXCEPT ![i] =
           IF scanners[i].sharesLeft = 0
           THEN [@ EXCEPT !.thread = "finalize"]
           ELSE IF scanners[i].stop_scan
                THEN [@ EXCEPT !.thread = "finalize", !.saw_stop = TRUE]
                ELSE [@ EXCEPT !.sharesLeft = @ - 1]]
    /\ UNCHANGED <<scans, scanner_state, current_scanner_instance, req, lifetime,
                   dbFaultsLeft, lastStatus, walk>>

\* "Final commit": the row of the scan is set to completed; an exception is
\* logged, rolled back and not raised
scan_filesystem_final_commit(i) ==
    /\ i \in DOMAIN scanners
    /\ scanners[i].thread = "finalize"
    /\ LET id == scanners[i].current_scan_id IN
       \E ok \in DbOutcomes :
       /\ dbFaultsLeft' = Fault(ok)
       /\ scans' = IF ok
                   THEN [scans EXCEPT ![id].status = "completed",
                                      ![id].end_time = TRUE]
                   ELSE scans
       /\ scanners' = [scanners EXCEPT ![i].thread =
                          IF ok THEN "post" ELSE "cleanup"]
    /\ UNCHANGED <<scanner_state, current_scanner_instance, req, lifetime,
                   lastStatus, walk>>

\* _create_folder_info_records, _run_post_scan_processing (their errors are
\* swallowed), then scanner_state['scanning'] = False
scan_filesystem_post(i) ==
    /\ i \in DOMAIN scanners
    /\ scanners[i].thread = "post"
    /\ scanners' = [scanners EXCEPT ![i].thread = "cleanup"]
    /\ scanner_state' = [scanner_state EXCEPT !.scanning = FALSE]
    /\ UNCHANGED <<scans, current_scanner_instance, req, lifetime, dbFaultsLeft,
                   lastStatus, walk>>

\* the outer except block: if self.current_scan, the row is set to failed
scan_filesystem_except(i) ==
    /\ i \in DOMAIN scanners
    /\ scanners[i].thread = "except"
    /\ LET id == scanners[i].current_scan_id IN
       \E ok \in DbOutcomes :
       /\ dbFaultsLeft' = Fault(ok)
       /\ scans' = IF ok /\ scanners[i].current_scan
                   THEN [scans EXCEPT ![id].status = "failed",
                                      ![id].error_message = "scan_failed",
                                      ![id].end_time = TRUE]
                   ELSE scans
    /\ scanners' = [scanners EXCEPT ![i].thread = "cleanup"]
    /\ UNCHANGED <<scanner_state, current_scanner_instance, req, lifetime,
                   lastStatus, walk>>

\* the finally block
scan_filesystem_finally(i) ==
    /\ i \in DOMAIN scanners
    /\ scanners[i].thread = "cleanup"
    /\ scanners' = [scanners EXCEPT ![i].thread = "exited",
                                    ![i].scanning = FALSE,
                                    ![i].current_scan = FALSE]
    /\ scanner_state' = [scanner_state EXCEPT !.scanning = FALSE]
    /\ UNCHANGED <<scans, current_scanner_instance, req, lifetime, dbFaultsLeft,
                   lastStatus, walk>>

---------------------------------------------------------------------------
(* Process restart and the repair script *)

\* The process dies and app.py's __main__ block runs again: the globals are
\* back to their initial values, every thread is gone, the database is kept,
\* and check_stuck_scans_on_startup marks the running rows failed (its
\* exception is logged and rolled back)
check_stuck_scans_on_startup ==
    /\ lifetime < MaxRestarts
    /\ lifetime' = lifetime + 1
    /\ scanner_state' = InitScannerState
    /\ current_scanner_instance' = 0
    /\ scanners' = [i \in DOMAIN scanners |->
                      IF WalkerLive(i)
                      THEN [scanners[i] EXCEPT !.thread = "killed"]
                      ELSE scanners[i]]
    /\ req' = [t \in Threads |-> IdleReq]
    /\ \E ok \in DbOutcomes :
       /\ scans' = IF ok THEN MarkRunning(scans, "failed", "interrupted")
                   ELSE scans
       /\ dbFaultsLeft' = Fault(ok)
    /\ UNCHANGED <<lastStatus, walk>>

\* fix_stuck_scan.py force_reset_scanner, run as a script beside the server:
\* the running rows are marked failed; FileScanner.force_reset then acts on a
\* FileScanner object of the script's own process
force_reset_scanner ==
    /\ RunningRows # {}
    /\ scans' = MarkRunning(scans, "failed", "force_reset")
    /\ UNCHANGED <<scanner_state, current_scanner_instance, scanners, req,
                   lifetime, dbFaultsLeft, lastStatus, walk>>

---------------------------------------------------------------------------

InitWalkIdle == walk = [pc |-> "off"]

Init == InitLifecycle(MaxDbFaults) /\ InitWalkIdle

\* the start of the behaviours in which no database operation raises
InitNoDbError == InitLifecycle(0) /\ InitWalkIdle

Next ==
    \/ \E t \in Threads : start_scan_check(t)
    \/ \E t \in Threads : FileScanner_start_scan_cleanup(t)
    \/ \E t \in Threads : FileScanner_start_scan_create(t)
    \/ \E t \in Threads : start_scan_set_state(t)
    \/ stop_scan
    \/ get_scan_status
    \/ \E i \in 1..MaxScanners : scan_filesystem_setup(i)
    \/ \E i \in 1..MaxScanners : scan_filesystem_share(i)
    \/ \E i \in 1..MaxScanners : scan_filesystem_final_commit(i)
    \/ \E i \in 1..MaxScanners : scan_filesystem_post(i)
    \/ \E i \in 1..MaxScanners : scan_filesystem_except(i)
    \/ \E i \in 1..MaxScanners : scan_filesystem_finally(i)
    \/ check_stuck_scans_on_startup
    \/ force_reset_scanner

Spec == Init /\ [][Next]_vars

\* the behaviours in which no database operation raises
SpecNoDbError == InitNoDbError /\ [][Next]_vars

---------------------------------------------------------------------------
(* Strings: a string is the sequence of its characters *)

UpperCase ==
    <<"A", "B", "C", "D", "E", "F", "G", "H", "I", "J", "K", "L", "M", "N", "O", "P", "Q", "R", "S", "T", "U", "V", "W", "X", "Y", "Z">>

LowerCase ==
    <<"a", "b", "c", "d", "e", "f", "g", "h", "i", "j", "k", "l", "m", "n", "o", "p", "q", "r", "s", "t", "u", "v", "w", "x", "y", "z">>

\* str.lower() on one character
LowerChar(c) ==
    IF \E k \in 1..Len(UpperCase) : UpperCase[k] = c
    THEN LowerCase[CHOOSE k \in 1..Len(UpperCase) : UpperCase[k] = c]
    ELSE c

\* str.lower()
lower(s) == [k \in 1..Len(s) |-> LowerChar(s[k])]

\* the Python test "tok in s" on strings
Contains(tok, s) ==
    \E k \in 0..(Len(s) - Len(tok)) : SubSeq(s, k + 1, k + Len(tok)) = tok

\* os.path.join(a, b) for a relative b
join(a, b) == a \o <<"/">> \o b

\* os.path.basename: what follows the last "/"
basename(s) ==
    LET slashes == {k \in 1..Len(s) : s[k] = "/"}
        last == IF slashes = {} THEN 0
                ELSE CHOOSE k \in slashes : \A j \in slashes : j <= k
    IN  SubSeq(s, last + 1, Len(s))

S_appdata == <<"a", "p", "p", "d", "a", "t", "a">>

excluded_shares ==
    <<<<"c", "a", "c", "h", "e">>,
      <<"t", "e", "m", "p">>,
      <<"t", "m", "p">>,
      <<"l", "o", "g", "s">>,
      <<"l", "o", "g">>,
      <<"b", "a", "c", "k", "u", "p">>,
      <<"b", "a", "c", "k", "u", "p", "s">>,
      <<"x", "t", "e", "v", "e">>,
      <<"p", "l", "e", "x">>,
      <<"e", "m", "b", "y">>,
      <<"j", "e", "l", "l", "y", "f", "i", "n">>,
      <<"s", "o", "n", "a", "r", "r">>,
      <<"r", "a", "d", "a", "r", "r">>,
      <<"l", "i", "d", "a", "r", "r">>,
      <<"r", "e", "a", "d", "a", "r", "r">>,
      <<"s", "a", "b", "n", "z", "b", "d">>,
      <<"n", "z", "b", "g", "e", "t">>,
      <<"t", "r", "a", "n", "s", "m", "i", "s", "s", "i", "o", "n">>,
      <<"d", "e", "l", "u", "g", "e">>,
      <<"q", "b", "i", "t">>,
      <<"q", "b", "i", "t", "t", "o", "r", "r", "e", "n", "t">>,
      <<"d", "o", "c", "k", "e", "r">>,
      <<"c", "o", "n", "t", "a", "i", "n", "e", "r", "s">>>>

\* is_excluded_share of _scan_filesystem_with_context, with the value of the
\* skip_appdata setting
is_excluded_share(share_name, skip_appdata) ==
    LET share_lower == lower(share_name) IN
    \/ /\ skip_appdata
       /\ Contains(S_appdata, share_lower) \/ share_lower = S_appdata
    \/ \E k \in 1..Len(excluded_shares) :
           Contains(excluded_shares[k], share_lower)

\* the filter of os.walk's dirs list: 'appdata' not in d, compared as written
not_appdata_case_sensitive(d) == ~Contains(S_appdata, d)

\* the filter of os.walk's dirs list: 'appdata' not in d.lower()
not_appdata(d) == ~Contains(S_appdata, lower(d))

\* is_appdata_path of test_appdata_exclusion.py
is_appdata_path(path_str) ==
    LET path_lower == lower(path_str) IN
    \/ Contains(S_appdata, path_lower)
    \/ \E k \in 1..Len(excluded_shares) :
           Contains(excluded_shares[k], path_lower)

---------------------------------------------------------------------------
(* The tree under the scan root *)

\* Shape of the trees: items 1 and 2 lie in the scan root; 1 is a directory
\* that holds the directory 3 and the file 4; 3 holds the file 5; 2 is a file
\* or an empty directory.
Nodes == {1, 2, 3, 4, 5}

Parent(n) == CASE n = 3 -> 1 [] n = 4 -> 1 [] n = 5 -> 3 [] OTHER -> 0

Children(n) == CASE n = 1 -> <<3, 4>> [] n = 3 -> <<5>> [] OTHER -> << >>

\* os.listdir(self.data_path)
top_level_items == <<1, 2>>

Names ==
    {<<"t", "v">>,
     <<"A", "p", "p", "D", "a", "t", "a">>,
     <<"C", "a", "c", "h", "e">>,
     <<"b", "l", "o", "g">>}

DataPaths ==
    {<<"/", "d", "a", "t", "a">>,
     <<"/", "m", "n", "t", "/", "A", "p", "p", "D", "a", "t", "a", "/", "d">>,
     <<"/", "b", "a", "c", "k", "u", "p">>}

IsDir(n) == n \in {1, 3} \/ (n = 2 /\ walk.kind2 = "dir")

\* st.st_size of the file n
FileSize(n) == 10 * n

RECURSIVE PathOf(_)
PathOf(n) ==
    IF Parent(n) = 0 THEN join(walk.data_path, walk.name[n])
    ELSE join(PathOf(Parent(n)), walk.name[n])

ParentPath(n) == IF Parent(n) = 0 THEN walk.data_path ELSE PathOf(Parent(n))

\* FileRecord(path=..., name=..., size=..., is_directory=..., parent_path=...)
FileRecord(n) ==
    [path |-> PathOf(n), name |-> walk.name[n],
     size |-> IF IsDir(n) THEN 0 ELSE FileSize(n),
     is_directory |-> IsDir(n), parent_path |-> ParentPath(n)]

RECURSIVE SelectSeq2(_, _)
\* the items of a list that satisfy keep, in order
SelectSeq2(seq, keep) ==
    IF seq = << >> THEN << >>
    ELSE IF keep[Head(seq)]
         THEN <<Head(seq)>> \o SelectSeq2(Tail(seq), keep)
         ELSE SelectSeq2(Tail(seq), keep)

\* os.walk's dirs list of directory d, after "dirs[:] = [d for d in dirs if
\* 'appdata' not in d.lower()]" when skip_appdata is set
WalkDirs(d) ==
    SelectSeq2(Children(d),
               [n \in Nodes |-> IsDir(n) /\ (walk.skip_appdata => not_appdata(walk.name[n]))])

\* os.walk's files list of directory d
WalkFiles(d) == SelectSeq2(Children(d), [n \in Nodes |-> ~IsDir(n)])

---------------------------------------------------------------------------
(* The database session of the walker *)

\* "Commit every 100 directories" and "Commit every 1000 files", scaled to
\* the size of the trees
DirCommitEvery == 2
FileCommitEvery == 2

\* db.session.commit(): the pending records are written
Commit(st) ==
    [st EXCEPT !.committed = st.committed \cup st.pending, !.pending = {}]

\* db.session.rollback(): the pending records are dropped
Rollback(st) == [st EXCEPT !.pending = {}]

\* db.session.commit() inside a try block whose except block rolls back:
\* busy is "the commit raises (database is locked)"
TryCommit(st, busy) ==
    IF busy THEN [Rollback(st) EXCEPT !.commit_failed = TRUE] ELSE Commit(st)

\* db.session.add(record)
Add(st, record) ==
    [st EXCEPT !.pending = @ \cup {record}, !.added = @ \cup {record}]

RECURSIVE AddDirs(_, _, _)
\* "for dir_name in dirs": one directory record each, a commit every
\* DirCommitEvery directories
AddDirs(st, dirs, busy) ==
    IF dirs = << >> THEN st
    ELSE LET a == [Add(st, FileRecord(Head(dirs))) EXCEPT !.total_directories = @ + 1]
             b == IF a.total_directories % DirCommitEvery = 0
                  THEN TryCommit(a, busy) ELSE a
         IN  AddDirs(b, Tail(dirs), busy)

RECURSIVE AddFiles(_, _, _, _)
\* "for file_name in files": os.stat, one file record each, a commit every
\* FileCommitEvery files; an exception of os.stat (the files of fails) is
\* logged, the session is rolled back and the loop continues
AddFiles(st, files, fails, busy) ==
    IF files = << >> THEN st
    ELSE LET f == Head(files)
             a == [Add(st, FileRecord(f)) EXCEPT !.total_files = @ + 1,
                                                 !.total_size = @ + FileSize(f)]
             b == IF a.total_files % FileCommitEvery = 0
                  THEN TryCommit(a, busy) ELSE a
         IN  AddFiles(IF f \in fails
                      THEN [Rollback(st) EXCEPT !.stat_failed = TRUE]
                      ELSE b,
                      Tail(files), fails, busy)

Range(seq) == {seq[k] : k \in 1..Len(seq)}

\* the part of the walk record the session operators work on
Session == [pending |-> walk.pending, committed |-> walk.committed,
            total_files |-> walk.total_files,
            total_directories |-> walk.total_directories,
            total_size |-> walk.total_size,
            added |-> walk.added, stat_failed |-> walk.stat_failed,
            commit_failed |-> walk.commit_failed]

WithSession(w, st) ==
    [w EXCEPT !.pending = st.pending, !.committed = st.committed,
              !.total_files = st.total_files,
              !.total_directories = st.total_directories,
              !.total_size = st.total_size,
              !.added = st.added, !.stat_failed = st.stat_failed,
              !.commit_failed = st.commit_failed]

---------------------------------------------------------------------------
(* One traversal: FileScanner._scan_filesystem_with_context *)

InitWalk ==
    \E dp \in DataPaths, sa \in BOOLEAN, k2 \in {"dir", "file"},
       nm \in [Nodes -> Names] :
        /\ nm[1] # nm[2] /\ nm[3] # nm[4]
        /\ walk = [pc |-> "start", data_path |-> dp, skip_appdata |-> sa,
                   kind2 |-> k2, name |-> nm, k |-> 1, stack |-> << >>,
                   stop_scan |-> FALSE, late |-> FALSE, over |-> FALSE,
                   pending |-> {}, committed |-> {},
                   total_files |-> 0, total_directories |-> 0, total_size |-> 0,
                   status |-> "running",
                   \* history: the records handed to db.session.add, and
                   \* what has happened to the traversal so far
                   added |-> {}, stat_failed |-> FALSE, commit_failed |-> FALSE,
                   cleaned |-> FALSE, raised |-> FALSE, post_passes |-> FALSE,
                   \* the directories skipped by the timeout test although
                   \* the time since the previous pass was within the threshold
                   skipped_in_time |-> {}]

\* "Check if the starting path itself should be excluded": raise, or go on to
\* the loop over the top-level items
walk_root_check ==
    /\ walk.pc = "start"
    /\ walk' = [walk EXCEPT !.pc =
                   IF is_excluded_share(basename(walk.data_path), walk.skip_appdata)
                   THEN "except" ELSE "shares"]
    /\ UNCHANGED lifecycleVars

\* the share loop without the test os.path.isdir(share_path)
walk_share_without_isdir ==
    /\ walk.pc = "shares"
    /\ walk' =
         IF walk.k > Len(top_level_items) \/ walk.stop_scan
         THEN [walk EXCEPT !.pc = "finalize"]
         ELSE LET n == top_level_items[walk.k] IN
              IF is_excluded_share(walk.name[n], walk.skip_appdata)
              THEN [walk EXCEPT !.k = @ + 1]
              ELSE [walk EXCEPT !.pending = @ \cup {FileRecord(n)},
                                !.added = @ \cup {FileRecord(n)},
                                !.total_directories = @ + 1,
                                !.stack = <<n>>,
                                !.pc = "walk"]
    /\ UNCHANGED lifecycleVars

\* one pass of "for share_name in top_level_items" up to the call of os.walk
walk_share ==
    /\ walk.pc = "shares"
    /\ walk' =
         IF walk.k > Len(top_level_items) \/ walk.stop_scan
         THEN [walk EXCEPT !.pc = "finalize"]
         ELSE LET n == top_level_items[walk.k] IN
              IF is_excluded_share(walk.name[n], walk.skip_appdata) \/ ~IsDir(n)
              THEN [walk EXCEPT !.k = @ + 1]
              ELSE [walk EXCEPT !.pending = @ \cup {FileRecord(n)},
                                !.added = @ \cup {FileRecord(n)},
                                !.total_directories = @ + 1,
                                !.stack = <<n>>,
                                !.pc = "walk"]
    /\ UNCHANGED lifecycleVars

\* the next share is taken when os.walk has no directory left or was left by
\* a break
AfterDir(w, stack) ==
    IF stack = << >> THEN [w EXCEPT !.stack = << >>, !.pc = "shares", !.k = @ + 1]
    ELSE [w EXCEPT !.stack = stack]

\* the clock at one directory. slow is "more than directory_timeout seconds
\* have passed since the previous pass"; the test of the code is
\* "current_time - last_directory_time > directory_timeout", and
\* last_directory_time is not advanced by a timed-out directory, so after one
\* timeout (walk.late) the test stays true. over is "current_time -
\* scan_start_time > max_scan_time".
DirectoryTimeout(slow) == walk.late \/ slow
OverOutcomes == IF walk.over THEN {TRUE} ELSE BOOLEAN

\* the end of one pass: "Update progress in database periodically" commits
\* (progress), an exception there rolls back; the periodic
\* cleanup_database_connections rolls the session back (cleanup)
EndOfPass(st, progress, cleanup, busy) ==
    LET up == IF progress THEN TryCommit(st, busy) ELSE st
    IN  IF cleanup THEN Rollback(up) ELSE up

\* one pass of "for root, dirs, files in os.walk(share_path)"; an exception
\* that no inner try block catches (raises) ends the walk of this share:
\* "except Exception as e: ... continue"
walk_dir ==
    /\ walk.pc = "walk"
    /\ LET d == Head(walk.stack) IN
       IF walk.stop_scan
       THEN walk' = AfterDir(walk, << >>)
       ELSE \E slow \in BOOLEAN, overNow \in OverOutcomes,
               fails \in SUBSET Range(WalkFiles(d)), raises \in BOOLEAN :
            IF raises
            THEN walk' = AfterDir([walk EXCEPT !.raised = TRUE], << >>)
            ELSE IF DirectoryTimeout(slow)
            THEN walk' = AfterDir([walk EXCEPT
                                      !.late = TRUE,
                                      !.skipped_in_time =
                                          IF slow THEN @ ELSE @ \cup {d}],
                                  Tail(walk.stack))
            ELSE \E progress \in BOOLEAN, cleanup \in BOOLEAN, busy \in BOOLEAN :
                 LET st == AddFiles(AddDirs(Session, WalkDirs(d), busy),
                                    WalkFiles(d), fails, busy)
                     up == EndOfPass(st, progress, cleanup, busy)
                     w == [WithSession(walk, up) EXCEPT
                              !.over = overNow,
                              !.cleaned = @ \/ (cleanup /\ up # EndOfPass(st, progress, FALSE, busy))]
                 IN  walk' = AfterDir(w, IF overNow THEN << >>
                                         ELSE WalkDirs(d) \o Tail(walk.stack))
    /\ UNCHANGED lifecycleVars

\* stop_current_scan, called while the walker runs
walk_stop ==
    /\ walk.pc \in {"shares", "walk"}
    /\ ~walk.stop_scan
    /\ walk' = [walk EXCEPT !.stop_scan = TRUE]
    /\ UNCHANGED lifecycleVars

\* "Final commit": the scan row is set to completed and the session is
\* committed; an exception is logged and the session rolled back
walk_final_commit ==
    /\ walk.pc = "finalize"
    /\ \E ok \in BOOLEAN :
       walk' = IF ok
               THEN [WithSession(walk, Commit(Session)) EXCEPT
                        !.status = "completed", !.pc = "post"]
               ELSE [WithSession(walk, Rollback(Session)) EXCEPT !.pc = "done"]
    /\ UNCHANGED lifecycleVars

\* after the final commit: _create_folder_info_records and
\* _run_post_scan_processing (folder totals, duplicate detection)
walk_post ==
    /\ walk.pc = "post"
    /\ walk' = [walk EXCEPT !.post_passes = TRUE, !.pc = "done"]
    /\ UNCHANGED lifecycleVars

\* the outer except block: the scan row is set to failed
walk_except ==
    /\ walk.pc = "except"
    /\ walk' = [walk EXCEPT !.status = "failed", !.pc = "done"]
    /\ UNCHANGED lifecycleVars

NextWalk ==
    \/ walk_root_check
    \/ walk_share
    \/ walk_dir
    \/ walk_stop
    \/ walk_final_commit
    \/ walk_post
    \/ walk_except

InitSpecWalk == InitLifecycle(0) /\ InitWalk

SpecWalk == InitSpecWalk /\ [][NextWalk]_vars

---------------------------------------------------------------------------
(* The post passes on the tables a completed scan has left:                *)
(* calculate_folder_totals_during_scan and detect_duplicates of app.py     *)

\* str.startswith
startswith(s, prefix) ==
    Len(s) >= Len(prefix) /\ SubSeq(s, 1, Len(prefix)) = prefix

RECURSIVE replace(_, _)
\* str.replace(old, ''), old not empty
replace(s, old) ==
    IF Len(s) < Len(old) THEN s
    ELSE IF SubSeq(s, 1, Len(old)) = old
         THEN replace(SubSeq(s, Len(old) + 1, Len(s)), old)
         ELSE <<Head(s)>> \o replace(Tail(s), old)

RECURSIVE strip(_)
\* str.strip('/')
strip(s) ==
    IF s = << >> THEN s
    ELSE IF Head(s) = "/" THEN strip(Tail(s))
    ELSE IF s[Len(s)] = "/" THEN strip(SubSeq(s, 1, Len(s) - 1))
    ELSE s

\* len(relative_path.split('/')) if relative_path else 0
Depth(path, data_path) ==
    LET relative_path == strip(replace(path, data_path)) IN
    IF relative_path = << >> THEN 0
    ELSE Cardinality({k \in 1..Len(relative_path) : relative_path[k] = "/"}) + 1

RECURSIVE SumOf(_, _)
\* SQL sum() / a Python accumulation of field f over the rows S
SumOf(S, f) ==
    IF S = {} THEN 0
    ELSE LET x == CHOOSE x \in S : TRUE IN x[f] + SumOf(S \ {x}, f)

\* the next primary key of a table
NextId(tbl) ==
    IF tbl = {} THEN 1
    ELSE 1 + (CHOOSE m \in {r.id : r \in tbl} : \A r \in tbl : r.id <= m)

\* the clearing step left out: the table as it was
DeleteFolderInfoNone(tbl, scan_id) == tbl

\* FolderInfo.query.filter_by(scan_id=scan_id).delete()
DeleteFolderInfo(tbl, scan_id) == {r \in tbl : r.scan_id # scan_id}

\* the query of calculate_folder_totals_during_scan: the directory rows of
\* the scan, grouped by (path, name, parent_path), with the three aggregates
\* taken over the rows of each group
DirectoryData(file_records, scan_id) ==
    LET rows == {r \in file_records : r.scan_id = scan_id /\ r.is_directory}
        group(d) == {r \in rows : r.path = d.path /\ r.name = d.name
                                   /\ r.parent_path = d.parent_path}
    IN  {[path |-> d.path, name |-> d.name, parent_path |-> d.parent_path,
          direct_file_count |-> Cardinality({r \in group(d) : ~r.is_directory}),
          direct_directory_count |-> Cardinality({r \in group(d) : r.is_directory}),
          direct_size |-> SumOf({r \in group(d) : ~r.is_directory}, "size")]
         : d \in rows}

RECURSIVE OrderByLengthDesc(_)
\* order_by(length(path).desc())
OrderByLengthDesc(S) ==
    IF S = {} THEN << >>
    ELSE LET x == CHOOSE x \in S : \A y \in S : Len(y.path) <= Len(x.path)
         IN  <<x>> \o OrderByLengthDesc(S \ {x})

RECURSIVE FolderLoop(_, _, _, _, _)
\* "for directory in directory_data": folder_info is the dictionary built so
\* far, tbl the folder_info table
FolderLoop(directory_data, folder_info, tbl, data_path, scan_id) ==
    IF directory_data = << >> THEN tbl
    ELSE LET directory == Head(directory_data)
             sub == {f \in folder_info :
                        startswith(f.path, directory.path \o <<"/">>)
                        /\ f.path # directory.path}
             info == [path |-> directory.path, name |-> directory.name,
                      parent_path |-> directory.parent_path,
                      total_size |-> directory.direct_size + SumOf(sub, "total_size"),
                      file_count |-> directory.direct_file_count + SumOf(sub, "file_count"),
                      directory_count |-> directory.direct_directory_count
                                          + SumOf(sub, "directory_count"),
                      direct_file_count |-> directory.direct_file_count,
                      direct_directory_count |-> directory.direct_directory_count,
                      depth |-> Depth(directory.path, data_path)]
             \* folder_info[path] = {...}
             dict == {f \in folder_info : f.path # directory.path} \cup {info}
             row == [id |-> NextId(tbl), scan_id |-> scan_id] @@ info
         IN  FolderLoop(Tail(directory_data), dict, tbl \cup {row}, data_path, scan_id)

\* calculate_folder_totals_during_scan(data_path, scan_id): the folder_info
\* table it leaves
FolderTotals(file_records, tbl, data_path, scan_id) ==
    FolderLoop(OrderByLengthDesc(DirectoryData(file_records, scan_id)), {},
               DeleteFolderInfo(tbl, scan_id), data_path, scan_id)

RECURSIVE OrderById(_)
\* the rows of a query in primary-key order
OrderById(S) ==
    IF S = {} THEN << >>
    ELSE LET x == CHOOSE x \in S : \A y \in S : x.id <= y.id
         IN  <<x>> \o OrderById(S \ {x})

RECURSIVE SetToSeq(_)
\* the items of a dictionary or of a GROUP BY, in some order
SetToSeq(S) ==
    IF S = {} THEN << >>
    ELSE LET x == CHOOSE x \in S : TRUE IN <<x>> \o SetToSeq(S \ {x})

\* detect_duplicates: the (size, name) pairs a group is created for. The
\* sizes are those of files_by_size (size > 0, more than one file of the
\* scan), the names those of files_by_name with more than one file.
DuplicateKeys(file_records, scan_id) ==
    LET sized == {r \in file_records :
                     r.scan_id = scan_id /\ ~r.is_directory /\ r.size > 0}
        files_by_size == {sz \in {r.size : r \in sized} :
                             Cardinality({r \in sized : r.size = sz}) > 1}
        files(sz) == {r \in file_records :
                         r.scan_id = scan_id /\ r.size = sz /\ ~r.is_directory}
    IN  {[size |-> sz, name |-> nm, file_list |-> OrderById({r \in files(sz) : r.name = nm})]
         : <<sz, nm>> \in {<<r.size, r.name>> : r \in {x \in file_records :
                              x.size \in files_by_size /\ x \in files(x.size)
                              /\ Cardinality({y \in files(x.size) : y.name = x.name}) > 1}}}

\* the rows of one group with every file marked primary
DuplicateMembersAllPrimary(file_list, group_id, hash_value, first_id) ==
    {[id |-> first_id + i - 1, file_id |-> file_list[i].id, group_id |-> group_id,
      hash_value |-> hash_value, is_primary |-> TRUE, is_deleted |-> FALSE]
     : i \in 1..Len(file_list)}

\* "for i, file in enumerate(file_list)": the DuplicateFile rows of one group
DuplicateMembers(file_list, group_id, hash_value, first_id) ==
    {[id |-> first_id + i - 1, file_id |-> file_list[i].id, group_id |-> group_id,
      hash_value |-> hash_value, is_primary |-> (i = 1), is_deleted |-> FALSE]
     : i \in 1..Len(file_list)}

RECURSIVE DuplicateLoop(_, _, _)
\* the loops over files_by_size and files_by_name: one DuplicateGroup and its
\* DuplicateFile rows per key; content_hash = f"size_{size}_name_{name}"
DuplicateLoop(keys, groups, members) ==
    IF keys = << >> THEN [duplicate_groups |-> groups, duplicate_files |-> members]
    ELSE LET key == Head(keys)
             content_hash == [size |-> key.size, name |-> key.name]
             group == [id |-> NextId(groups), hash_value |-> content_hash,
                       size |-> key.size, file_count |-> Len(key.file_list)]
         IN  DuplicateLoop(Tail(keys), groups \cup {group},
                           members \cup DuplicateMembers(key.file_list, group.id,
                                                         content_hash, NextId(members)))

\* DuplicateFile.query.delete() and DuplicateGroup.query.delete()
DeleteDuplicates(tbl) == {}

\* detect_duplicates(scan_id): the two tables it leaves
DuplicateTables(file_records, groups, members, scan_id) ==
    DuplicateLoop(SetToSeq(DuplicateKeys(file_records, scan_id)),
                  DeleteDuplicates(groups), DeleteDuplicates(members))

---------------------------------------------------------------------------
(* The tables after completed scans *)

S_data == <<"/", "d", "a", "t", "a">>

MaxPostRuns == 2

\* the directories a scan may have recorded below /data: a, a/b, a/b/c, ab
PostDirs == {"a", "b", "c", "d"}

DirName == [a |-> <<"a">>, b |-> <<"b">>, c |-> <<"c">>, d |-> <<"a", "b">>]

DirParentPath ==
    [a |-> S_data, b |-> join(S_data, <<"a">>),
     c |-> join(join(S_data, <<"a">>), <<"b">>), d |-> S_data]

DirPath == [x \in PostDirs |-> join(DirParentPath[x], DirName[x])]

DirId == [a |-> 11, b |-> 12, c |-> 13, d |-> 14]

FileId == [a |-> 21, b |-> 22, c |-> 23, d |-> 24]

FileNames == {<<"m">>, <<"n">>}

FileSizes == {0, 7, 9}

\* what a directory holds beside its sub-directories: no file, or one file
FileChoices == {[present |-> FALSE]}
               \cup {[present |-> TRUE, name |-> nm, size |-> sz]
                     : nm \in FileNames, sz \in FileSizes}

\* the file_records rows the walker writes for a tree: one row per directory
\* below the scan root (none for the scan root), one row per file
TreeRecords(dirs, fileOf, scan_id) ==
    {[id |-> DirId[x], path |-> DirPath[x], name |-> DirName[x], size |-> 0,
      is_directory |-> TRUE, parent_path |-> DirParentPath[x], scan_id |-> scan_id]
     : x \in dirs}
    \cup
    {[id |-> FileId[x], path |-> join(DirPath[x], fileOf[x].name),
      name |-> fileOf[x].name, size |-> fileOf[x].size,
      is_directory |-> FALSE, parent_path |-> DirPath[x], scan_id |-> scan_id]
     : x \in {y \in dirs : fileOf[y].present}}

\* an earlier completed scan (id 1) of /data/a/m and /data/ab/m, 7 bytes each,
\* and the tables its post passes left
OldRecords ==
    {[r EXCEPT !.id = @ - 10] :
        r \in TreeRecords({"a", "d"},
                          [x \in PostDirs |-> [present |-> TRUE, name |-> <<"m">>, size |-> 7]],
                          1)}

OldFolderInfo == FolderTotals(OldRecords, {}, S_data, 1)

OldDuplicates == DuplicateTables(OldRecords, {}, {}, 1)

InitPost ==
    \E dirs \in SUBSET PostDirs, fileOf \in [PostDirs -> FileChoices], old \in BOOLEAN :
        /\ "a" \in dirs
        /\ "c" \in dirs => "b" \in dirs
        /\ \A x \in PostDirs \ dirs : ~fileOf[x].present
        /\ walk = [pc |-> "post", data_path |-> S_data,
                   scan_ids |-> IF old THEN {1, 2} ELSE {2},
                   file_records |-> TreeRecords(dirs, fileOf, 2)
                                    \cup (IF old THEN OldRecords ELSE {}),
                   folder_info |-> IF old THEN OldFolderInfo ELSE {},
                   duplicate_groups |-> IF old THEN OldDuplicates.duplicate_groups ELSE {},
                   duplicate_files |-> IF old THEN OldDuplicates.duplicate_files ELSE {},
                   aggregated |-> {},
                   aggregated_again |-> FALSE,
                   detected |-> 0,
                   runs |-> 0,
                   \* the last reply of /api/files/tree/<id> and its request
                   children |-> << >>, directory_id |-> 0, max_items |-> 0]

\* calculate_folder_totals_during_scan(data_path, scan_id)
calculate_folder_totals_during_scan ==
    /\ walk.pc = "post"
    /\ walk.runs < MaxPostRuns
    /\ \E scan_id \in walk.scan_ids :
        walk' = [walk EXCEPT
                    !.folder_info = FolderTotals(walk.file_records, walk.folder_info,
                                                 walk.data_path, scan_id),
                    !.aggregated = @ \cup {scan_id},
                    !.aggregated_again = (scan_id \in walk.aggregated),
                    !.runs = @ + 1]
    /\ UNCHANGED lifecycleVars

\* detect_duplicates(scan_id)
detect_duplicates ==
    /\ walk.pc = "post"
    /\ walk.runs < MaxPostRuns
    /\ \E scan_id \in walk.scan_ids :
        LET t == DuplicateTables(walk.file_records, walk.duplicate_groups,
                                 walk.duplicate_files, scan_id)
        IN  walk' = [walk EXCEPT
                        !.duplicate_groups = t.duplicate_groups,
                        !.duplicate_files = t.duplicate_files,
                        !.detected = scan_id,
                        !.runs = @ + 1]
    /\ UNCHANGED lifecycleVars

\* the latest completed scan: order_by(desc(ScanRecord.start_time)).first()
LatestScan == CHOOSE m \in walk.scan_ids : \A x \in walk.scan_ids : x <= m

\* get_folder_info(path)['total_size']: the pre-calculated total of the
\* latest completed scan, or the sum over the rows below path
get_folder_info(path) ==
    LET pre == {f \in walk.folder_info : f.path = path /\ f.scan_id = LatestScan}
    IN  IF pre # {}
        THEN (CHOOSE f \in pre : \A g \in pre : f.id <= g.id).total_size
        ELSE SumOf({r \in walk.file_records :
                       startswith(r.path, path \o <<"/">>) /\ r.scan_id = LatestScan},
                   "size")

RECURSIVE OrderBySizeDesc(_)
\* order_by(FileRecord.size.desc()), equal sizes in primary-key order
OrderBySizeDesc(S) ==
    IF S = {} THEN << >>
    ELSE LET x == CHOOSE x \in S : \A y \in S :
                      y.size < x.size \/ (y.size = x.size /\ x.id <= y.id)
         IN  <<x>> \o OrderBySizeDesc(S \ {x})

\* .limit(max_items)
Limit(seq, max_items) ==
    SubSeq(seq, 1, IF Len(seq) < max_items THEN Len(seq) ELSE max_items)

RECURSIVE SortBySizeDesc(_)
\* result.sort(key=lambda x: x['size'], reverse=True), a stable sort
SortBySizeDesc(seq) ==
    IF seq = << >> THEN << >>
    ELSE LET k == CHOOSE k \in 1..Len(seq) :
                      \A j \in 1..Len(seq) :
                          seq[j].size < seq[k].size \/ (seq[j].size = seq[k].size /\ k <= j)
         IN  <<seq[k]>> \o SortBySizeDesc(SubSeq(seq, 1, k - 1) \o SubSeq(seq, k + 1, Len(seq)))

\* the body of get_directory_children: the children query with its limit,
\* then the size of each returned child, then the sort
DirectoryChildren(directory, max_items) ==
    LET children == Limit(OrderBySizeDesc({r \in walk.file_records :
                                              r.parent_path = directory.path}),
                          max_items)
    IN  SortBySizeDesc([k \in 1..Len(children) |->
                           [id |-> children[k].id, path |-> children[k].path,
                            is_directory |-> children[k].is_directory,
                            size |-> IF children[k].is_directory
                                     THEN get_folder_info(children[k].path)
                                     ELSE children[k].size]])

MaxItems == 2

\* GET /api/files/tree/<directory_id> with the setting max_items_per_folder
get_directory_children ==
    /\ walk.pc = "post"
    /\ \E directory \in {r \in walk.file_records : r.is_directory},
          max_items \in 1..MaxItems :
        walk' = [walk EXCEPT !.pc = "listed",
                             !.children = DirectoryChildren(directory, max_items),
                             !.directory_id = directory.id,
                             !.max_items = max_items]
    /\ UNCHANGED lifecycleVars

NextPost == calculate_folder_totals_during_scan \/ detect_duplicates

\* a listing of the tables as the scans left them, before or after the
\* folder totals were recalculated
NextList == calculate_folder_totals_during_scan \/ get_directory_children

InitSpecPost == InitLifecycle(0) /\ InitPost

SpecPost == InitSpecPost /\ [][NextPost]_vars

SpecList == InitSpecPost /\ [][NextList]_vars

---------------------------------------------------------------------------
(* Post passes: the statements checked under SpecPost *)

\* the directory Entries of a scan
DirEntries(scan_id) ==
    {r \in walk.file_records : r.scan_id = scan_id /\ r.is_directory}

\* the file Entries of a scan
FileEntries(scan_id) ==
    {r \in walk.file_records : r.scan_id = scan_id /\ ~r.is_directory}

\* the Entries located under the directory D, at any depth
Under(S, D) == {r \in S : startswith(r.path, D.path \o <<"/">>)}

\* the FolderAggregate rows of a path of a scan
AggregatesOf(path, scan_id) ==
    {f \in walk.folder_info : f.scan_id = scan_id /\ f.path = path}

\* C12: after aggregate(scan_id), every directory Entry D of the scan has an
\* aggregate whose total_size is the sum of the sizes of the file Entries
\* under D recursively and whose file_count is the number of those files.
C12_AggregateSizeAndFileCount ==
    \A scan_id \in walk.aggregated : \A D \in DirEntries(scan_id) :
        /\ AggregatesOf(D.path, scan_id) # {}
        /\ \A f \in AggregatesOf(D.path, scan_id) :
            /\ f.total_size = SumOf(Under(FileEntries(scan_id), D), "size")
            /\ f.file_count = Cardinality(Under(FileEntries(scan_id), D))

\* C13: after aggregate(scan_id), every directory Entry F of the scan has an
\* aggregate whose directory_count is the number of directory Entries strictly
\* under F and whose direct_directory_count is the number of its immediate
\* child directories.
C13_AggregateDirectoryCounts ==
    \A scan_id \in walk.aggregated : \A F \in DirEntries(scan_id) :
        /\ AggregatesOf(F.path, scan_id) # {}
        /\ \A f \in AggregatesOf(F.path, scan_id) :
            /\ f.directory_count = Cardinality(Under(DirEntries(scan_id), F))
            /\ f.direct_directory_count =
                 Cardinality({r \in DirEntries(scan_id) : r.parent_path = F.path})

\* a folder_info row without its primary key
NoId(f) == [k \in DOMAIN f \ {"id"} |-> f[k]]

\* the folder_info rows of a scan, without their primary keys
AggregateRows(w, scan_id) == {NoId(f) : f \in {g \in w.folder_info : g.scan_id = scan_id}}

\* C14: an aggregation pass run for a scan that was aggregated before, on an
\* unchanged Entry set, leaves exactly one aggregate row per directory Entry,
\* with the path, totals, counts and depth the earlier run left.
C14_AggregationIdempotent ==
    [][calculate_folder_totals_during_scan =>
        \A scan_id \in walk.aggregated :
            /\ AggregateRows(walk', scan_id) = AggregateRows(walk, scan_id)
            /\ \A D \in DirEntries(scan_id) :
                 Cardinality({f \in walk'.folder_info :
                                 f.scan_id = scan_id /\ f.path = D.path}) = 1
            /\ Cardinality({f \in walk'.folder_info : f.scan_id = scan_id})
                 = Cardinality(DirEntries(scan_id))]_vars

\* the aggregation has just been run again for a scan with a directory chain
\* a, a/b, a/b/c
C14_Witness ==
    /\ walk.pc = "post"
    /\ walk.aggregated_again
    /\ 2 \in walk.aggregated
    /\ walk.runs = MaxPostRuns
    /\ Cardinality(DirEntries(2)) >= 3
    /\ Cardinality({f \in walk.folder_info : f.scan_id = 2}) >= 3

\* C15: after a completed scan has been aggregated, an aggregate exists for
\* the scan root itself and its total_size is the sum of the sizes of all
\* files of the scan.
C15_RootAggregate ==
    \A scan_id \in walk.aggregated :
        /\ AggregatesOf(walk.data_path, scan_id) # {}
        /\ \A f \in AggregatesOf(walk.data_path, scan_id) :
             f.total_size = SumOf(FileEntries(scan_id), "size")

\* the file Entries of a scan that share the pair (size, name)
SameSizeAndName(scan_id, size, name) ==
    {r \in FileEntries(scan_id) : r.size = size /\ r.name = name}

\* the (size, name) pairs with size > 0 that two or more file Entries share
SharedPairs(scan_id) ==
    {p \in {<<r.size, r.name>> : r \in FileEntries(scan_id)} :
        p[1] > 0 /\ Cardinality(SameSizeAndName(scan_id, p[1], p[2])) >= 2}

\* C16: after detect(scan_id), every pair (size, name) with size > 0 shared by
\* k >= 2 file Entries of the scan has exactly one DuplicateGroup, with
\* file_count = k and exactly k members, the k files, of which exactly one is
\* primary; directories, empty files and pairs occurring once belong to no
\* group.
C16_DuplicateGrouping ==
    walk.detected # 0 =>
        LET scan_id == walk.detected
            groupsOf(p) == {g \in walk.duplicate_groups :
                               g.hash_value = [size |-> p[1], name |-> p[2]]}
            membersOf(g) == {m \in walk.duplicate_files : m.group_id = g.id}
        IN  /\ \A p \in SharedPairs(scan_id) :
                /\ Cardinality(groupsOf(p)) = 1
                /\ \A g \in groupsOf(p) :
                    /\ g.file_count = Cardinality(SameSizeAndName(scan_id, p[1], p[2]))
                    /\ Cardinality(membersOf(g)) = g.file_count
                    /\ {m.file_id : m \in membersOf(g)}
                         = {r.id : r \in SameSizeAndName(scan_id, p[1], p[2])}
                    /\ Cardinality({m \in membersOf(g) : m.is_primary}) = 1
            /\ \A m \in walk.duplicate_files :
                \E r \in FileEntries(scan_id) :
                    /\ r.id = m.file_id
                    /\ <<r.size, r.name>> \in SharedPairs(scan_id)
            /\ \A g \in walk.duplicate_groups :
                \E p \in SharedPairs(scan_id) : g \in groupsOf(p)

\* detect has run for scan 2, where two pairs are shared: (7, m) by two files
\* and another pair by two more, beside the rows of the earlier scan
C16_Witness ==
    /\ walk.pc = "post"
    /\ walk.detected = 2
    /\ Cardinality(SharedPairs(2)) = 2
    /\ Cardinality(walk.duplicate_groups) = 2
    /\ Cardinality(walk.duplicate_files) = 4

\* the scan a DuplicateMember row belongs to: that of its file Entry
ScanOfMember(m) == {r.scan_id : r \in {x \in walk.file_records : x.id = m.file_id}}

\* C17: detect(scan_id) leaves the DuplicateGroup and DuplicateMember rows
\* that belong to every other scan unchanged.
C17_DetectPurgesOwnScanOnly ==
    [][detect_duplicates =>
        \A m \in walk.duplicate_files :
            walk'.detected \notin ScanOfMember(m) =>
                /\ m \in walk'.duplicate_files
                /\ \A g \in walk.duplicate_groups :
                     g.id = m.group_id => g \in walk'.duplicate_groups]_vars

\* the size a listing gives a child: its own size for a file, the total of
\* get_folder_info for a directory
ListedSize(r) == IF r.is_directory THEN get_folder_info(r.path) ELSE r.size

\* C23: a listing of the children of a directory with the limit N returns the
\* N largest children by total size: no child that is left out has a larger
\* total than a child that is returned.
C23_LargestChildrenReturned ==
    walk.directory_id # 0 =>
        LET directory == CHOOSE r \in walk.file_records : r.id = walk.directory_id
            all == {r \in walk.file_records : r.parent_path = directory.path}
            returned == {walk.children[k].id : k \in 1..Len(walk.children)}
        IN  \A c \in all : c.id \notin returned =>
                \A k \in 1..Len(walk.children) : ListedSize(c) <= walk.children[k].size

---------------------------------------------------------------------------
(* The overall time budget of a scan: FileScanner.__init__ and the timeout *)
(* check of _scan_filesystem_with_context, checked under SpecBudget        *)

MaxHours == 3
MaxPasses == 8

\* the seconds one pass of the os.walk loop may take
PassSeconds == {1800, 1800 * 3600}

\* FileScanner.__init__: self.max_duration = max_duration * 3600
FileScanner_init(max_duration) == max_duration * 3600

\* max_scan_time = self.max_duration * 3600
max_scan_time(self_max_duration) == self_max_duration * 3600

\* FileScanner(data_path, max_duration) with max_duration in hours
InitBudget ==
    \E max_duration \in 1..MaxHours :
        walk = [pc |-> "begin", max_duration |-> max_duration,
                self_max_duration |-> FileScanner_init(max_duration),
                max_scan_time |-> 0, scan_start_time |-> 0, current_time |-> 0,
                passes |-> 0]

\* scan_start_time = time.time(); max_scan_time = self.max_duration * 3600
scan_begin ==
    /\ walk.pc = "begin"
    /\ walk' = [walk EXCEPT !.pc = "walking",
                            !.max_scan_time = max_scan_time(walk.self_max_duration)]
    /\ UNCHANGED lifecycleVars

\* one pass of the os.walk loop; current_time = time.time()
scan_pass ==
    /\ walk.pc = "walking"
    /\ walk.passes < MaxPasses
    /\ \E seconds \in PassSeconds :
        walk' = [walk EXCEPT !.pc = "timeout_check",
                             !.current_time = walk.current_time + seconds,
                             !.passes = walk.passes + 1]
    /\ UNCHANGED lifecycleVars

\* if current_time - scan_start_time > max_scan_time: break
scan_timeout_check ==
    /\ walk.pc = "timeout_check"
    /\ walk' = [walk EXCEPT !.pc =
                   IF walk.current_time - walk.scan_start_time > walk.max_scan_time
                   THEN "timeout" ELSE "walking"]
    /\ UNCHANGED lifecycleVars

NextBudget == scan_begin \/ scan_pass \/ scan_timeout_check

InitSpecBudget == InitLifecycle(0) /\ InitBudget

SpecBudget == InitSpecBudget /\ [][NextBudget]_vars

\* C25: for max_duration = h hours the traversal is cut off once the elapsed
\* time exceeds h * 3600 seconds: it never goes on walking after a check made
\* more than h * 3600 seconds after the start.
C25_BudgetIsConfiguredDuration ==
    walk.pc = "walking" =>
        walk.current_time - walk.scan_start_time <= walk.max_duration * 3600

---------------------------------------------------------------------------
(* The decorator retry_on_db_lock of app.py, checked under SpecRetry       *)

MaxMaxRetries == 4

S_database_is_locked ==
    <<"d", "a", "t", "a", "b", "a", "s", "e", " ", "i", "s", " ", "l", "o", "c", "k", "e", "d">>

\* str(e) of the errors the wrapped function may raise
ErrorMessages ==
    {S_database_is_locked,
     <<"D">> \o Tail(S_database_is_locked),
     <<"d", "i", "s", "k", " ", "I", "/", "O", " ", "e", "r", "r", "o", "r">>}

None == [type |-> "None", value |-> 0, message |-> << >>, at |-> 0]

\* what one invocation of func may do: return a value, raise an
\* OperationalError, or raise another exception
Outcomes ==
    [type : {"return"}, value : {1, 2}, message : {<< >>}, at : {0}]
    \cup [type : {"OperationalError"}, value : {0}, message : ErrorMessages, at : {0}]
    \cup [type : {"ValueError"}, value : {0}, message : {<< >>}, at : {0}]

\* the loop body with every OperationalError taken for a lock error
attempt_retries_any_operational_error(st, outcome) ==
    LET called == [st EXCEPT !.calls = Append(@, outcome)]
    IN  IF outcome.type = "return"
        THEN [called EXCEPT !.pc = "returned", !.result = outcome]
        ELSE IF outcome.type = "OperationalError"
             THEN [called EXCEPT !.last_exception = outcome,
                                 !.attempt = @ + 1,
                                 !.rollbacks = IF st.attempt < st.max_retries - 1
                                               THEN @ + 1 ELSE @]
             ELSE [called EXCEPT !.pc = "raised", !.result = outcome]

\* one pass of "for attempt in range(max_retries)": the try block and its
\* except clauses
attempt(st, outcome) ==
    LET called == [st EXCEPT !.calls = Append(@, outcome)]
    IN  IF outcome.type = "return"
        THEN [called EXCEPT !.pc = "returned", !.result = outcome]
        ELSE IF outcome.type = "OperationalError"
             THEN IF Contains(S_database_is_locked, lower(outcome.message))
                  THEN [called EXCEPT !.last_exception = outcome,
                                      !.attempt = @ + 1,
                                      !.rollbacks = IF st.attempt < st.max_retries - 1
                                                    THEN @ + 1 ELSE @]
                  ELSE [called EXCEPT !.pc = "raised", !.result = outcome]
             ELSE [called EXCEPT !.pc = "raised", !.result = outcome]

\* a call of a function decorated with retry_on_db_lock(max_retries, delay)
InitRetry ==
    \E max_retries \in 0..MaxMaxRetries :
        walk = [pc |-> "wrapper", max_retries |-> max_retries, attempt |-> 0,
                last_exception |-> None, calls |-> << >>, result |-> None,
                rollbacks |-> 0]

\* the next pass of the loop; the exception object of the pass is its own
wrapper_attempt ==
    /\ walk.pc = "wrapper"
    /\ walk.attempt < walk.max_retries
    /\ \E outcome \in Outcomes :
        walk' = attempt(walk, [outcome EXCEPT !.at = walk.attempt + 1])
    /\ UNCHANGED lifecycleVars

\* after the loop: raise last_exception ("raise None" is a TypeError)
wrapper_raise_last_exception ==
    /\ walk.pc = "wrapper"
    /\ walk.attempt >= walk.max_retries
    /\ walk' = [walk EXCEPT !.pc = "raised",
                            !.result = IF walk.last_exception = None
                                       THEN [None EXCEPT !.type = "TypeError"]
                                       ELSE walk.last_exception]
    /\ UNCHANGED lifecycleVars

NextRetry == wrapper_attempt \/ wrapper_raise_last_exception

InitSpecRetry == InitLifecycle(0) /\ InitRetry

SpecRetry == InitSpecRetry /\ [][NextRetry]_vars

\* an operational error whose text says that the database is locked
LockError(e) ==
    e.type = "OperationalError" /\ Contains(S_database_is_locked, lower(e.message))

\* C26: the wrapped operation is invoked at most max_retries times; every
\* invocation but the last ended in a lock error; a returned value is that of
\* the last invocation; another error is raised as it is, by the invocation
\* that is the last; and when every invocation hit the lock error the wrapper
\* has used all max_retries of them and raises the last of these errors.
C26_RetryBounded ==
    LET calls == walk.calls
        n == Len(calls)
    IN  /\ n <= walk.max_retries
        /\ \A k \in 1..(n - 1) : LockError(calls[k])
        /\ \A k \in 1..n : calls[k].type = "return" =>
               walk.pc = "returned" /\ walk.result = calls[k]
        /\ \A k \in 1..n : calls[k].type # "return" /\ ~LockError(calls[k]) =>
               walk.pc = "raised" /\ walk.result = calls[k]
        /\ walk.pc = "returned" => n >= 1 /\ walk.result = calls[n]
        /\ (walk.pc # "wrapper" /\ n >= 1 /\ \A k \in 1..n : LockError(calls[k])) =>
               n = walk.max_retries /\ walk.pc = "raised" /\ walk.result = calls[n]

C26_Witness ==
    /\ walk.pc = "raised"
    /\ walk.max_retries = 3
    /\ Len(walk.calls) = 3
    /\ \A k \in 1..3 : LockError(walk.calls[k])
    /\ walk.result = walk.calls[3]
    /\ walk.calls[1].message # walk.calls[3].message

---------------------------------------------------------------------------
(* Exclusion: the statements checked under SpecWalk *)

\* the records the traversal has added to the session or committed
Entries == walk.pending \cup walk.committed

\* a path below the scan root, without the scan root's own path
Rel(p) == SubSeq(p, Len(walk.data_path) + 1, Len(p))

\* the scan root's own path holds no exclusion token
CleanRoot == ~is_appdata_path(walk.data_path)

C10_ExcludedDirectoriesPruned ==
    (walk.skip_appdata /\ CleanRoot) =>
        \A e \in Entries :
            /\ ~is_appdata_path(e.parent_path)
            /\ e.is_directory => ~is_appdata_path(e.path)

\* the exclusion policy on a whole path: a token anywhere in it, "appdata"
\* being a token when the skip_appdata setting is on
PolicyMatches(p) ==
    \/ walk.skip_appdata /\ Contains(S_appdata, lower(p))
    \/ \E k \in 1..Len(excluded_shares) : Contains(excluded_shares[k], lower(p))

\* C11: if the scan root itself matches the exclusion policy, the scan fails
\* fast: no Entry is written for it, it never ends completed, and once the
\* walker is done its row is failed.
C11_ExcludedRootFailsFast ==
    PolicyMatches(walk.data_path) =>
        /\ Entries = {}
        /\ walk.status # "completed"
        /\ walk.pc = "done" => walk.status = "failed"

---------------------------------------------------------------------------
(* Failure handling of the walker: the statements checked under SpecWalk *)

\* the scan has ended completed
EndedCompleted == walk.pc \in {"post", "done"} /\ walk.status = "completed"

\* C18: a batch whose commit failed with a transient store-busy error is not
\* lost: when the store accepts the later commits and the scan ends completed,
\* every entry handed to the session is persisted. Stated for scans with no
\* other failure (no error of os.stat, no periodic session cleanup).
C18_BatchSurvivesBusyCommit ==
    (EndedCompleted /\ walk.commit_failed /\ ~walk.stat_failed /\ ~walk.cleaned) =>
        walk.added \subseteq walk.committed

\* C19: an error of os.stat on one file makes only that file be skipped: when
\* the scan ends completed, every other entry handed to the session, before or
\* after the error, is persisted. Stated for scans with no other failure (no
\* failed commit, no periodic session cleanup).
C19_StatErrorSkipsOneEntry ==
    (EndedCompleted /\ walk.stat_failed /\ ~walk.commit_failed /\ ~walk.cleaned) =>
        walk.added \subseteq walk.committed

\* C20: after an unexpected exception raised while the walker traverses a
\* top-level subtree the session ends failed: it is never marked completed,
\* and the post passes do not run for it.
C20_UnexpectedErrorFailsScan ==
    walk.raised => walk.status # "completed" /\ ~walk.post_passes

C22_NoEntryAfterBudgetCheck ==
    [][walk.over => walk'.added = walk.added]_vars

\* C24: a scan row has the status completed only after the aggregation pass
\* and the duplicate-detection pass of that scan have run (or failed and been
\* swallowed): no state shows a completed row whose post passes are pending.
C24_CompletedOnlyAfterPostPasses ==
    walk.status = "completed" /\ ~walk.stop_scan => walk.post_passes

\* C29: when a scan ends completed, the totals of its row match what was
\* persisted: total_files is the number of file entries, total_directories
\* the number of directory entries, total_size the sum of the file sizes.
C29_TotalsMatchPersisted ==
    EndedCompleted =>
        /\ walk.total_files = Cardinality({r \in walk.committed : ~r.is_directory})
        /\ walk.total_directories = Cardinality({r \in walk.committed : r.is_directory})
        /\ walk.total_size = SumOf({r \in walk.committed : ~r.is_directory}, "size")

\* the entries of files handed to the session
FilesAdded == {r \in walk.added : ~r.is_directory}

\* C30: an item of the scan root that is not a directory is never recorded: a
\* regular file directly in the scan root gets no Entry, every file Entry lies
\* below a top-level directory, and the file count and the total size count
\* the files handed to the session and nothing else.
C30_RootFilesNotRecorded ==
    walk.kind2 = "file" =>
        /\ \A r \in walk.added : r.path # PathOf(2)
        /\ \A r \in FilesAdded : r.parent_path # walk.data_path
        /\ walk.total_files = Cardinality(FilesAdded)
        /\ walk.total_size = SumOf(FilesAdded, "size")

\* a completed scan of a root that holds the regular file 2, not excluded by
\* its name, next to the directory 1 whose file 4 was recorded
C30_Witness ==
    /\ walk.pc = "done" /\ walk.status = "completed"
    /\ walk.kind2 = "file"
    /\ ~is_excluded_share(walk.name[2], walk.skip_appdata)
    /\ \E e \in walk.committed : e.path = PathOf(4)
    /\ walk.total_files > 0

---------------------------------------------------------------------------
(* Scan lifecycle: the statements checked under Spec *)

\* the walker thread of scanner i is traversing the tree
Traversing(i) == scanners[i].thread \in {"started", "walking"}

\* the row GetStatus finds with order_by(start_time desc).first() is running
MostRecentRunning == scans # << >> /\ scans[Len(scans)].status = "running"

StaleRows == {r \in DOMAIN scans : scans[r].lifetime < lifetime}

\* C1: single-flight. A call of StartScan made while a walker thread is alive
\* (launched and not yet finished) is rejected: the calling thread goes no
\* further than the check, no FileScanner is built, no walker is launched and
\* no row is added to the scans table.
C1_SingleFlight ==
    [][\A t \in Threads :
          (AnyWalkerLive /\ start_scan_check(t)) =>
              UNCHANGED <<req, scanners, scans>>]_vars

\* C2: at most one walker thread traverses the filesystem in every reachable
\* state.
C2_AtMostOneWalker ==
    Cardinality({i \in DOMAIN scanners : Traversing(i)}) <= 1

\* C3: at most one row of the scans table has status 'running' in every
\* reachable state.
C3_AtMostOneRunningRow == Cardinality(RunningRows) <= 1

\* C4: reconciliation. When StartScan has created its new row and is about to
\* return the id, no row of an earlier process lifetime is still running, and
\* every row reconciled to failed carries an end time and an error message.
C4_StaleReconciledBeforeStart ==
    \A t \in Threads :
        req[t].pc = "setstate" =>
            \A r \in StaleRows :
                /\ scans[r].status # "running"
                /\ scans[r].status = "failed" =>
                      scans[r].end_time /\ scans[r].error_message # "none"

\* C5: after StopScan during a running scan the walker observes the stop flag
\* and halts, and when its thread finishes the row of its scan has status
\* 'stopped'.
C5_StoppedScanEndsStopped ==
    [][\A i \in DOMAIN scanners :
          (WalkerLive(i) /\ scanners[i].saw_stop
              /\ scanners'[i].thread = "exited") =>
              scans'[scanners[i].current_scan_id].status = "stopped"]_vars

\* C6: once the walker thread of a scan has exited, the row of that scan is
\* completed, failed or stopped, never running.
C6_ExitedScanIsTerminal ==
    \A i \in DOMAIN scanners :
        scanners[i].thread = "exited" =>
            scans[scanners[i].current_scan_id].status \in Terminal

\* C7: a GetStatus call made when no walker is alive and the most recent row is
\* still running does not reply 'scanning' and does not turn
\* scanner_state['scanning'] on.
C7_StaleRowNotReported ==
    [][(get_scan_status /\ ~AnyWalkerLive /\ MostRecentRunning) =>
          /\ lastStatus' # "scanning"
          /\ ~scanner_state.scanning => ~scanner_state'.scanning]_vars

\* C27: terminal statuses are absorbing. Once a row of the scans table has the
\* status completed, failed or stopped, no step changes its status.
C27_TerminalStatusAbsorbing ==
    [][\A r \in DOMAIN scans :
          scans[r].status \in Terminal => scans'[r].status = scans[r].status]_vars

\* C28: the in-memory flag never stays true without a walker. When no walker
\* thread is alive and every StartScan call has returned, with no GetStatus
\* call having touched the flag, scanner_state['scanning'] is false.
C28_FlagFalseWithoutWalker ==
    (/\ ~AnyWalkerLive
     /\ \A t \in Threads : req[t].pc = "idle"
     /\ lastStatus = "none") => ~scanner_state.scanning

\* the status C8 expects of a reply ('scanning' is the reply's word for running)
MostSpecificStatus ==
    IF AnyWalkerLive THEN "scanning"
    ELSE IF scans = << >> THEN "idle"
    ELSE scans[Len(scans)].status

\* C8: every GetStatus reply carries the most specific known state: scanning
\* while a walker is alive, otherwise the terminal status of the most recent
\* row together with an error when that row has an error message, and idle
\* only when the scans table is empty.
C8_MostSpecificStatus ==
    [][get_scan_status =>
          /\ lastStatus' = MostSpecificStatus
          /\ (~AnyWalkerLive /\ scans # << >>
                 /\ scans[Len(scans)].error_message # "none") =>
                 scanner_state'.error # "none"]_vars

===========================================================================
